---------------------------- MODULE Spec2Model ----------------------------
(***************************************************************************)
(* A model of neuroglancer's navigation state                              *)
(* (src/src/neuroglancer/navigation_state.ts): VoxelSize, SpatialPosition, *)
(* OrientationState, Pose, NavigationState and TrackableZoomState, wired   *)
(* together by their `changed' signals.                                    *)
(*                                                                         *)
(* One NavigationState object graph is modelled.  Every public operation   *)
(* is an operator from the object graph's state (a record) to the state    *)
(* when the call returns, listeners included: js-signals runs listeners    *)
(* synchronously, in subscription order, inside dispatch().                *)
(*                                                                         *)
(* Numbers are JavaScript numbers restricted to rational multiples of      *)
(* square roots of integers, plus NaN and +-Infinity; rounding of binary   *)
(* floating point and the sign of zero are not modelled.                   *)
(***************************************************************************)
EXTENDS Integers, Sequences, FiniteSets, TLC

(***************************************************************************)
(* Bounds of the model.                                                    *)
(***************************************************************************)
MaxComp == 1        \* voxel sizes <<MaxComp+2-a, MaxComp+1, a>>, a in 0..MaxComp
MaxCoord == 1       \* translate is not taken beyond this coordinate
MaxZoom == 3        \* zoomBy is not taken beyond this zoom factor
MaxQuat == 2        \* quaternions restored for snap have components in -1..MaxQuat

(***************************************************************************)
(* JavaScript numbers.                                                     *)
(***************************************************************************)
RECURSIVE GCD(_, _)
GCD(a, b) == IF b = 0 THEN a ELSE GCD(b, a % b)

Abs(i) == IF i < 0 THEN -i ELSE i

Sgn(i) == IF i < 0 THEN -1 ELSE IF i > 0 THEN 1 ELSE 0

\* A finite number is (n/d) * sqrt(r): n/d in lowest terms, d > 0, and r a
\* square-free integer, 1 for a rational.  Math.sqrt of the numbers it meets in
\* quat.fromMat3 makes the other r.
Rat(n, d) ==
    LET g == GCD(Abs(n), Abs(d))
        sg == IF d < 0 THEN -1 ELSE 1
    IN [k |-> "fin", n |-> sg * (n \div g), d |-> sg * (d \div g), r |-> 1]

Fin(i) == [k |-> "fin", n |-> i, d |-> 1, r |-> 1]

NaN == [k |-> "nan", n |-> 0, d |-> 1, r |-> 1]

Inf(sg) == [k |-> "inf", n |-> sg, d |-> 1, r |-> 1]

IsNaN(x) == x.k = "nan"

IsFinite(x) == x.k = "fin"

\* The largest s whose square divides m (m > 0).
SquarePart(m) ==
    CHOOSE s \in 1..m : m % (s * s) = 0 /\ \A u \in (s + 1)..m : m % (u * u) # 0

\* (n/d) * sqrt(m), m > 0, with the square part of m taken out of the root.
Surd(n, d, m) ==
    IF n = 0 THEN Fin(0)
    ELSE IF m = 1 THEN Rat(n, d)
    ELSE LET s == SquarePart(m)
         IN [Rat(n * s, d) EXCEPT !.r = m \div (s * s)]

\* A sum of two roots of different radicands is no number of this form; no
\* operation of the module forms one from the values the model holds.
NotRepresented == CHOOSE x \in {} : TRUE

NumAdd(a, b) ==
    IF IsNaN(a) \/ IsNaN(b) THEN NaN
    ELSE IF a.k = "inf" /\ b.k = "inf" THEN (IF a.n = b.n THEN a ELSE NaN)
    ELSE IF a.k = "inf" THEN a
    ELSE IF b.k = "inf" THEN b
    ELSE IF a.n = 0 THEN b
    ELSE IF b.n = 0 THEN a
    ELSE IF a.r = b.r THEN Surd(a.n * b.d + b.n * a.d, a.d * b.d, a.r)
    ELSE NotRepresented

NumMul(a, b) ==
    IF IsNaN(a) \/ IsNaN(b) THEN NaN
    ELSE IF a.k = "inf" \/ b.k = "inf"
         THEN (IF Sgn(a.n) * Sgn(b.n) = 0 THEN NaN ELSE Inf(Sgn(a.n) * Sgn(b.n)))
    ELSE Surd(a.n * b.n, a.d * b.d, a.r * b.r)

NumDiv(a, b) ==
    IF IsNaN(a) \/ IsNaN(b) THEN NaN
    ELSE IF a.k = "inf" /\ b.k = "inf" THEN NaN
    ELSE IF a.k = "inf" THEN Inf(IF b.n < 0 THEN -a.n ELSE a.n)
    ELSE IF b.k = "inf" THEN Fin(0)
    ELSE IF b.n = 0 THEN (IF a.n = 0 THEN NaN ELSE Inf(Sgn(a.n)))
    ELSE Surd(a.n * b.d * Sgn(b.n), a.d * Abs(b.n) * b.r, a.r * b.r)

\* Math.round: the nearest integer, halves rounded towards +Infinity.
NumRound(a) ==
    IF ~IsFinite(a) THEN a
    ELSE IF a.r = 1 THEN Fin((2 * a.n + a.d) \div (2 * a.d))
    ELSE NotRepresented

\* a < b on numbers (false when either is NaN).
NumLess(a, b) ==
    IF IsNaN(a) \/ IsNaN(b) THEN FALSE
    ELSE IF a.k = "inf" THEN a.n < 0 /\ ~(b.k = "inf" /\ b.n < 0)
    ELSE IF b.k = "inf" THEN b.n > 0
    ELSE IF Sgn(a.n) # Sgn(b.n) THEN Sgn(a.n) < Sgn(b.n)
    ELSE IF a.n >= 0
         THEN a.n * a.n * a.r * b.d * b.d < b.n * b.n * b.r * a.d * a.d
    ELSE a.n * a.n * a.r * b.d * b.d > b.n * b.n * b.r * a.d * a.d

\* Math.min of two numbers: NaN if either is NaN.
NumMin(a, b) ==
    IF IsNaN(a) \/ IsNaN(b) THEN NaN ELSE IF NumLess(b, a) THEN b ELSE a

\* Math.abs.
NumAbs(a) == IF a.k = "nan" THEN a ELSE [a EXCEPT !.n = Abs(@)]

\* Math.sign.
NumSign(a) == IF IsNaN(a) THEN NaN ELSE Fin(Sgn(a.n))

\* Math.sqrt.
NumSqrt(a) ==
    IF IsNaN(a) THEN NaN
    ELSE IF a.n < 0 THEN NaN
    ELSE IF a.k = "inf" THEN a
    ELSE IF a.n = 0 THEN a
    ELSE IF a.r = 1 THEN Surd(1, a.d, a.n * a.d)
    ELSE NotRepresented

(***************************************************************************)
(* gl-matrix vectors and quaternions (the operations the module calls).    *)
(***************************************************************************)
RECURSIVE Vec(_)
Vec(is) == IF is = <<>> THEN <<>> ELSE <<Fin(Head(is))>> \o Vec(Tail(is))

Vec3Zero == Vec(<<0, 0, 0>>)

Vec3Add(a, b) == <<NumAdd(a[1], b[1]), NumAdd(a[2], b[2]), NumAdd(a[3], b[3])>>

Vec3Multiply(a, b) == <<NumMul(a[1], b[1]), NumMul(a[2], b[2]), NumMul(a[3], b[3])>>

Vec3Divide(a, b) == <<NumDiv(a[1], b[1]), NumDiv(a[2], b[2]), NumDiv(a[3], b[3])>>

QuatIdentity == Vec(<<0, 0, 0, 1>>)

\* vec3.transformQuat(out, a, q): q * a * conj(q).
Vec3TransformQuat(a, q) ==
    LET M(x, y) == NumMul(x, y)
        Neg(x) == NumMul(Fin(-1), x)
        S3(x, y, z) == NumAdd(NumAdd(x, y), z)
        S4(w, x, y, z) == NumAdd(NumAdd(w, x), NumAdd(y, z))
        ix == S3(M(q[4], a[1]), M(q[2], a[3]), Neg(M(q[3], a[2])))
        iy == S3(M(q[4], a[2]), M(q[3], a[1]), Neg(M(q[1], a[3])))
        iz == S3(M(q[4], a[3]), M(q[1], a[2]), Neg(M(q[2], a[1])))
        iw == S3(Neg(M(q[1], a[1])), Neg(M(q[2], a[2])), Neg(M(q[3], a[3])))
    IN << S4(M(ix, q[4]), M(iw, Neg(q[1])), M(iy, Neg(q[3])), Neg(M(iz, Neg(q[2])))),
          S4(M(iy, q[4]), M(iw, Neg(q[2])), M(iz, Neg(q[1])), Neg(M(ix, Neg(q[3])))),
          S4(M(iz, q[4]), M(iw, Neg(q[3])), M(ix, Neg(q[2])), Neg(M(iy, Neg(q[1])))) >>

\* quat.normalize(out, a); a zero quaternion is left as it is.
QuatNormalize(q) ==
    LET Sq(x) == NumMul(x, x)
        len == NumAdd(NumAdd(Sq(q[1]), Sq(q[2])), NumAdd(Sq(q[3]), Sq(q[4])))
        inv == NumDiv(Fin(1), NumSqrt(len))
    IN IF NumLess(Fin(0), len)
       THEN <<NumMul(q[1], inv), NumMul(q[2], inv), NumMul(q[3], inv), NumMul(q[4], inv)>>
       ELSE q

\* mat3.fromQuat(out, q): the matrix as the 9 numbers out[0..8].
Mat3FromQuat(q) ==
    LET x == q[1]  y == q[2]  z == q[3]  w == q[4]
        x2 == NumAdd(x, x)  y2 == NumAdd(y, y)  z2 == NumAdd(z, z)
        xx == NumMul(x, x2)  yx == NumMul(y, x2)  yy == NumMul(y, y2)
        zx == NumMul(z, x2)  zy == NumMul(z, y2)  zz == NumMul(z, z2)
        wx == NumMul(w, x2)  wy == NumMul(w, y2)  wz == NumMul(w, z2)
        Sub(a, b) == NumAdd(a, NumMul(Fin(-1), b))
    IN << Sub(Sub(Fin(1), yy), zz), NumAdd(yx, wz), Sub(zx, wy),
          Sub(yx, wz), Sub(Sub(Fin(1), xx), zz), NumAdd(zy, wx),
          NumAdd(zx, wy), Sub(zy, wx), Sub(Sub(Fin(1), xx), yy) >>

\* quat.fromMat3(out, m).
QuatFromMat3(m) ==
    LET M(i) == m[i + 1]
        Sub(a, b) == NumAdd(a, NumMul(Fin(-1), b))
        Half == Rat(1, 2)
        fTrace == NumAdd(NumAdd(M(0), M(4)), M(8))
    IN IF NumLess(Fin(0), fTrace)
       THEN LET fRoot == NumSqrt(NumAdd(fTrace, Fin(1)))
                f == NumDiv(Half, fRoot)
            IN << NumMul(Sub(M(5), M(7)), f), NumMul(Sub(M(6), M(2)), f),
                  NumMul(Sub(M(1), M(3)), f), NumMul(Half, fRoot) >>
       ELSE LET i0 == IF NumLess(M(0), M(4)) THEN 1 ELSE 0
                i == IF NumLess(M(i0 * 3 + i0), M(8)) THEN 2 ELSE i0
                j == (i + 1) % 3
                k == (i + 2) % 3
                fRoot == NumSqrt(NumAdd(Sub(Sub(M(i * 3 + i), M(j * 3 + j)), M(k * 3 + k)),
                                        Fin(1)))
                f == NumDiv(Half, fRoot)
                At(n) == IF n = i THEN NumMul(Half, fRoot)
                         ELSE IF n = j THEN NumMul(NumAdd(M(j * 3 + i), M(i * 3 + j)), f)
                         ELSE IF n = k THEN NumMul(NumAdd(M(k * 3 + i), M(i * 3 + k)), f)
                         ELSE NumMul(Sub(M(j * 3 + k), M(k * 3 + j)), f)
            IN <<At(0), At(1), At(2), At(3)>>

(***************************************************************************)
(* JSON-like input values of restoreState.                                 *)
(***************************************************************************)
JUndef == [t |-> "undefined"]

JNull == [t |-> "null"]

\* A string; p is the number parseFloat reads from it (NaN if none).
JStr(p) == [t |-> "string", p |-> p]

JNum(x) == [t |-> "number", x |-> x]

JArr(a) == [t |-> "array", a |-> a]

\* An object; f is a record of its own properties.
JObj(f) == [t |-> "object", f |-> f]

RECURSIVE JVecOf(_)
JVecOf(v) == IF v = <<>> THEN <<>> ELSE <<JNum(Head(v))>> \o JVecOf(Tail(v))

\* Array.prototype.slice.call(vec): the vector as a JSON array of numbers.
JVec(v) == JArr(JVecOf(v))

\* obj[name] throws a TypeError exactly when obj is null or undefined.
Indexable(obj) == obj.t \notin {"undefined", "null"}

HasOwn(obj, name) == obj.t = "object" /\ name \in DOMAIN obj.f

Get(obj, name) == IF HasOwn(obj, name) THEN obj.f[name] ELSE JUndef

RECURSIVE NumsOf(_)
NumsOf(a) == IF a = <<>> THEN <<>> ELSE <<Head(a).x>> \o NumsOf(Tail(a))

\* parseFiniteVec(out, obj) of neuroglancer/util/json: obj must be an array of
\* out.length finite numbers, which are copied to out; anything else throws,
\* and out is left as it was.  ok = FALSE stands for the throw.
ParseFiniteVec(len, obj) ==
    IF /\ obj.t = "array"
       /\ Len(obj.a) = len
       /\ \A i \in 1..len : obj.a[i].t = "number" /\ IsFinite(obj.a[i].x)
    THEN [ok |-> TRUE, v |-> NumsOf(obj.a)]
    ELSE [ok |-> FALSE, v |-> <<>>]

\* parseFloat(x): of a number the number, of a string its numeric prefix, of a
\* one-element array the parseFloat of that element, NaN of anything else.
RECURSIVE ParseFloat(_)
ParseFloat(x) ==
    IF x.t = "number" THEN x.x
    ELSE IF x.t = "string" THEN x.p
    ELSE IF x.t = "array" /\ Len(x.a) >= 1 THEN ParseFloat(x.a[1])
    ELSE NaN

(***************************************************************************)
(* The state of the object graph, as the operations below see it: the      *)
(* fields of the objects, how many times each `changed' signal was         *)
(* dispatched in the current call, and whether the call threw.             *)
(***************************************************************************)
NoVec == <<>>     \* voxelCoordinates == null

\* The state at the start of a public call.
Begin(s) ==
    [s EXCEPT !.nVoxelSize = 0, !.nPosition = 0, !.nOrientation = 0,
              !.nPose = 0, !.nNavigation = 0, !.threw = FALSE,
              !.zoomAssigned = FALSE, !.zoomClobbered = FALSE,
              !.pendingDropped = FALSE, !.unsetZoomNotified = FALSE]

\* A TypeError leaves the call at once.
Throw(s) == [s EXCEPT !.threw = TRUE]

(***************************************************************************)
(* Signals.  NavigationState.changed has no listener inside the module.    *)
(***************************************************************************)
\* unsetZoomNotified records a dispatch that reaches the observers of
\* NavigationState while VoxelSize is valid and zoomFactor is still NaN.
NavigationChangedDispatch(s) ==
    [s EXCEPT !.nNavigation = @ + 1,
              !.unsetZoomNotified = @ \/ (s.valid /\ IsNaN(s.zoomFactor))]

\* Mutant: Pose.changed is not forwarded to NavigationState.changed.
PoseChangedDispatchNotForwarded(s) == [s EXCEPT !.nPose = @ + 1]

\* Pose.changed: listener NavigationState.changed.dispatch (line 399).
PoseChangedDispatch(s) == NavigationChangedDispatch([s EXCEPT !.nPose = @ + 1])

\* SpatialPosition.changed: listener Pose.changed.dispatch (line 309).
PositionChangedDispatch(s) == PoseChangedDispatch([s EXCEPT !.nPosition = @ + 1])

\* OrientationState.changed: listener Pose.changed.dispatch (line 310).
OrientationChangedDispatch(s) == PoseChangedDispatch([s EXCEPT !.nOrientation = @ + 1])

(***************************************************************************)
(* VoxelSize helpers and the two listeners of VoxelSize.changed.           *)
(***************************************************************************)
\* Mutant: multiplies instead of dividing.
VoxelFromSpatialMultiply(s, spatial) == Vec3Multiply(spatial, s.size)

VoxelFromSpatial(s, spatial) == Vec3Divide(spatial, s.size)

SpatialFromVoxel(s, voxel) == Vec3Multiply(voxel, s.size)

\* Mutant: drops the pending voxel coordinate without converting it.
PositionHandleVoxelSizeChangedNoConvert(s) ==
    PositionChangedDispatch([s EXCEPT !.voxelCoordinates = NoVec])

\* Mutant: converts a pending voxel coordinate even over valid spatial
\* coordinates.
PositionHandleVoxelSizeChangedPendingFirst(s) ==
    LET s1 == IF s.voxelCoordinates # NoVec
              THEN [s EXCEPT !.spatialCoordinates = SpatialFromVoxel(s, s.voxelCoordinates),
                             !.spatialCoordinatesValid = TRUE,
                             !.pendingDropped = @ \/ s.spatialCoordinatesValid]
              ELSE s
    IN PositionChangedDispatch([s1 EXCEPT !.voxelCoordinates = NoVec])

\* pendingDropped records that a pending voxel coordinate was cleared without
\* having been converted.
PositionHandleVoxelSizeChanged(s) ==
    LET s1 == IF s.voxelCoordinates # NoVec /\ ~s.spatialCoordinatesValid
              THEN [s EXCEPT !.spatialCoordinates = SpatialFromVoxel(s, s.voxelCoordinates),
                             !.spatialCoordinatesValid = TRUE]
              ELSE [s EXCEPT !.pendingDropped = @ \/ s.voxelCoordinates # NoVec]
    IN PositionChangedDispatch([s1 EXCEPT !.voxelCoordinates = NoVec])

\* Mutant: takes the first component instead of the minimum.
SetZoomFactorFromFirstComponent(s) ==
    IF s.valid
    THEN NavigationChangedDispatch(
             [s EXCEPT !.zoomFactor = s.size[1],
                       !.zoomClobbered = @ \/ ~IsNaN(s.zoomFactor)])
    ELSE s

\* zoomClobbered records that the assignment replaced a zoom factor that was set.
SetZoomFactorFromVoxelSize(s) ==
    IF s.valid
    THEN NavigationChangedDispatch(
             [s EXCEPT !.zoomFactor = NumMin(NumMin(s.size[1], s.size[2]), s.size[3]),
                       !.zoomClobbered = @ \/ ~IsNaN(s.zoomFactor)])
    ELSE s

NavigationHandleVoxelSizeChanged(s) ==
    IF IsNaN(s.zoomFactor) THEN SetZoomFactorFromVoxelSize(s) ELSE s

\* VoxelSize.changed: listeners SpatialPosition.handleVoxelSizeChanged (line
\* 106) and then NavigationState.handleVoxelSizeChanged (line 400).
VoxelSizeChangedDispatch(s) ==
    NavigationHandleVoxelSizeChanged(
        PositionHandleVoxelSizeChanged([s EXCEPT !.nVoxelSize = @ + 1]))

(***************************************************************************)
(* VoxelSize.                                                              *)
(***************************************************************************)
VoxelSizeReset(s) == VoxelSizeChangedDispatch([s EXCEPT !.valid = FALSE])

\* Mutant: becomes valid without dispatching VoxelSize.changed.
VoxelSizeSetValidSilent(s) == [s EXCEPT !.valid = TRUE]

VoxelSizeSetValid(s) ==
    IF ~s.valid THEN VoxelSizeChangedDispatch([s EXCEPT !.valid = TRUE]) ELSE s

\* Mutant: a failed parse leaves the valid flag as it was.
VoxelSizeRestoreStateKeepsValid(s, obj) ==
    LET p == ParseFiniteVec(3, obj)
    IN IF p.ok THEN VoxelSizeSetValid([s EXCEPT !.size = p.v]) ELSE s

VoxelSizeRestoreState(s, obj) ==
    LET p == ParseFiniteVec(3, obj)
    IN IF p.ok THEN VoxelSizeSetValid([s EXCEPT !.size = p.v])
       ELSE [s EXCEPT !.valid = FALSE]

VoxelSizeToJSON(s) == IF ~s.valid THEN JUndef ELSE JVec(s.size)

(***************************************************************************)
(* SpatialPosition.                                                        *)
(***************************************************************************)
PositionValid(s) == s.spatialCoordinatesValid /\ s.valid

VoxelCoordinatesValid(s) == PositionValid(s) \/ s.voxelCoordinates # NoVec

PositionReset(s) ==
    PositionChangedDispatch([s EXCEPT !.spatialCoordinatesValid = FALSE,
                                      !.voxelCoordinates = NoVec])

\* The value returned, and `out' when it is written.
GetVoxelCoordinates(s) ==
    IF s.voxelCoordinates # NoVec THEN [ok |-> TRUE, out |-> s.voxelCoordinates]
    ELSE IF PositionValid(s)
         THEN [ok |-> TRUE, out |-> VoxelFromSpatial(s, s.spatialCoordinates)]
    ELSE [ok |-> FALSE, out |-> NoVec]

MarkSpatialCoordinatesChanged(s) ==
    PositionChangedDispatch([s EXCEPT !.spatialCoordinatesValid = TRUE,
                                      !.voxelCoordinates = NoVec])

SetVoxelCoordinates(s, voxelCoordinates) ==
    PositionChangedDispatch(
        IF s.valid
        THEN MarkSpatialCoordinatesChanged(
                 [s EXCEPT !.spatialCoordinates = SpatialFromVoxel(s, voxelCoordinates)])
        ELSE [s EXCEPT !.voxelCoordinates = voxelCoordinates])

PositionRestoreState(s, obj) ==
    IF ~Indexable(obj) THEN Throw(s)
    ELSE LET s1 == VoxelSizeRestoreState(s, Get(obj, "voxelSize"))
             s2 == [s1 EXCEPT !.spatialCoordinatesValid = FALSE]
             pv == ParseFiniteVec(3, Get(obj, "voxelCoordinates"))
             s3 == IF HasOwn(obj, "voxelCoordinates") /\ pv.ok
                   THEN SetVoxelCoordinates(s2, pv.v)
                   ELSE s2
             ps == ParseFiniteVec(3, Get(obj, "spatialCoordinates"))
         IN IF ps.ok
            THEN MarkSpatialCoordinatesChanged([s3 EXCEPT !.spatialCoordinates = ps.v])
            ELSE s3

PositionToJSON(s) ==
    LET voxelSizeJson == VoxelSizeToJSON(s)
        names == (IF voxelSizeJson # JUndef THEN {"voxelSize"} ELSE {}) \cup
                 (IF VoxelCoordinatesValid(s) THEN {"voxelCoordinates"}
                  ELSE IF s.spatialCoordinatesValid THEN {"spatialCoordinates"}
                  ELSE {})
    IN IF names = {} THEN JUndef
       ELSE JObj([n \in names |->
                     IF n = "voxelSize" THEN voxelSizeJson
                     ELSE IF n = "voxelCoordinates" THEN JVec(GetVoxelCoordinates(s).out)
                     ELSE JVec(s.spatialCoordinates)])

SnapToVoxel(s) ==
    IF ~PositionValid(s)
    THEN IF s.voxelCoordinates # NoVec
         THEN PositionChangedDispatch(
                  [s EXCEPT !.voxelCoordinates = <<NumRound(@[1]), NumRound(@[2]), NumRound(@[3])>>])
         ELSE s
    ELSE LET Snap(i) == NumMul(NumRound(NumDiv(s.spatialCoordinates[i], s.size[i])), s.size[i])
         IN PositionChangedDispatch(
                [s EXCEPT !.spatialCoordinates = <<Snap(1), Snap(2), Snap(3)>>])

(***************************************************************************)
(* OrientationState.                                                       *)
(***************************************************************************)
QuaternionIsIdentity(q) == q = QuatIdentity

OrientationToJSON(s) ==
    IF QuaternionIsIdentity(s.orientation) THEN JUndef ELSE JVec(s.orientation)

OrientationRestoreState(s, obj) ==
    LET p == ParseFiniteVec(4, obj)
    IN OrientationChangedDispatch(
           [s EXCEPT !.orientation = IF p.ok THEN QuatNormalize(p.v) ELSE QuatIdentity])

OrientationReset(s) ==
    OrientationChangedDispatch([s EXCEPT !.orientation = QuatIdentity])

\* The inner loop of snap over one row of the matrix: the entry of largest
\* magnitude among the columns not used yet (the first of them on a tie), and
\* its column; 0 and column 0 when no entry exceeds 0 in magnitude.
SnapArgmax(row, usedAxes) ==
    LET Step(acc, j) ==
            IF usedAxes[j + 1] THEN acc
            ELSE IF NumLess(NumAbs(acc.maxComponent), NumAbs(row[j + 1]))
                 THEN [maxComponent |-> row[j + 1], argmaxComponent |-> j]
            ELSE acc
    IN Step(Step(Step([maxComponent |-> Fin(0), argmaxComponent |-> 0], 0), 1), 2)

\* Mutant: the selected entry is set to 1 whatever its sign.
SnapRowsUnsigned(mat) ==
    LET Row(i) == <<mat[i * 3 + 1], mat[i * 3 + 2], mat[i * 3 + 3]>>
        Unit(j) == <<IF j = 0 THEN Fin(1) ELSE Fin(0), IF j = 1 THEN Fin(1) ELSE Fin(0),
                     IF j = 2 THEN Fin(1) ELSE Fin(0)>>
        a0 == SnapArgmax(Row(0), <<FALSE, FALSE, FALSE>>)
        u0 == [<<FALSE, FALSE, FALSE>> EXCEPT ![a0.argmaxComponent + 1] = TRUE]
        a1 == SnapArgmax(Row(1), u0)
        u1 == [u0 EXCEPT ![a1.argmaxComponent + 1] = TRUE]
        a2 == SnapArgmax(Row(2), u1)
    IN Unit(a0.argmaxComponent) \o Unit(a1.argmaxComponent) \o Unit(a2.argmaxComponent)

\* The outer loop of snap: each row in turn is zeroed but for the selected
\* column, which gets the sign of the selected entry and is marked used.
SnapRows(mat) ==
    LET Row(i) == <<mat[i * 3 + 1], mat[i * 3 + 2], mat[i * 3 + 3]>>
        Out(a) == [j \in 1..3 |-> IF j = a.argmaxComponent + 1
                                  THEN NumSign(a.maxComponent) ELSE Fin(0)]
        a0 == SnapArgmax(Row(0), <<FALSE, FALSE, FALSE>>)
        u0 == [<<FALSE, FALSE, FALSE>> EXCEPT ![a0.argmaxComponent + 1] = TRUE]
        a1 == SnapArgmax(Row(1), u0)
        u1 == [u0 EXCEPT ![a1.argmaxComponent + 1] = TRUE]
        a2 == SnapArgmax(Row(2), u1)
    IN <<Out(a0)[1], Out(a0)[2], Out(a0)[3], Out(a1)[1], Out(a1)[2], Out(a1)[3],
         Out(a2)[1], Out(a2)[2], Out(a2)[3]>>

OrientationSnap(s) ==
    OrientationChangedDispatch(
        [s EXCEPT !.orientation = QuatFromMat3(SnapRows(Mat3FromQuat(s.orientation)))])

(***************************************************************************)
(* Pose.                                                                   *)
(***************************************************************************)
\* Mutant: resets the voxel size as well.
PoseResetWithVoxelSize(s) == OrientationReset(PositionReset(VoxelSizeReset(s)))

PoseReset(s) == OrientationReset(PositionReset(s))

PoseToJSON(s) ==
    LET positionJson == PositionToJSON(s)
        orientationJson == OrientationToJSON(s)
    IN IF positionJson = JUndef /\ orientationJson = JUndef THEN JUndef
       ELSE JObj([position |-> positionJson, orientation |-> orientationJson])

PoseRestoreState(s, obj) ==
    IF ~Indexable(obj) THEN Throw(s)
    ELSE LET s1 == PositionRestoreState(s, Get(obj, "position"))
         IN IF s1.threw THEN s1
            ELSE OrientationRestoreState(s1, Get(obj, "orientation"))

TranslateAbsolute(s, translation) ==
    PositionChangedDispatch(
        [s EXCEPT !.spatialCoordinates = Vec3Add(@, translation)])

\* Mutant: subtracts the rotated translation.
TranslateRelativeSubtract(s, translation) ==
    IF ~PositionValid(s) THEN s
    ELSE PositionChangedDispatch(
             [s EXCEPT !.spatialCoordinates =
                           Vec3Add(@, Vec3TransformQuat(
                                          Vec3Multiply(translation, Vec(<<-1, -1, -1>>)),
                                          s.orientation))])

TranslateRelative(s, translation) ==
    IF ~PositionValid(s) THEN s
    ELSE PositionChangedDispatch(
             [s EXCEPT !.spatialCoordinates =
                           Vec3Add(@, Vec3TransformQuat(translation, s.orientation))])

(***************************************************************************)
(* NavigationState and TrackableZoomState.                                 *)
(***************************************************************************)
ResetZoom(s) == NavigationChangedDispatch([s EXCEPT !.zoomFactor = NaN])

NavigationReset(s) == ResetZoom(PoseReset(s))

ZoomBy(s, factor) ==
    IF IsNaN(s.zoomFactor) THEN s
    ELSE NavigationChangedDispatch([s EXCEPT !.zoomFactor = NumMul(@, factor)])

NavigationToJSON(s) ==
    LET poseJson == PoseToJSON(s)
        zoomFactorJson == IF IsNaN(s.zoomFactor) THEN JUndef ELSE JNum(s.zoomFactor)
    IN IF poseJson = JUndef /\ zoomFactorJson = JUndef THEN JUndef
       ELSE JObj([pose |-> poseJson, zoomFactor |-> zoomFactorJson])

\* zoomAssigned records the assignment of a finite zoom factor from the input.
NavigationRestoreState(s, obj) ==
    IF obj.t \notin {"object", "array"} THEN s
    ELSE LET s1 == PoseRestoreState(s, Get(obj, "pose"))
             zoomFactor == ParseFloat(Get(obj, "zoomFactor"))
             s2 == IF IsFinite(zoomFactor)
                   THEN [s1 EXCEPT !.zoomFactor = zoomFactor, !.zoomAssigned = TRUE]
                   ELSE [s1 EXCEPT !.zoomFactor = NaN]
         IN IF s1.threw THEN s1
            ELSE NavigationChangedDispatch(NavigationHandleVoxelSizeChanged(s2))

\* Mutant: no typeof check, parses whatever it is given.
TrackableZoomRestoreStateAnyType(s, obj) ==
    IF IsFinite(ParseFloat(obj))
    THEN NavigationChangedDispatch(
             [s EXCEPT !.zoomFactor = ParseFloat(obj), !.zoomAssigned = TRUE])
    ELSE s

TrackableZoomRestoreState(s, obj) ==
    IF obj.t # "number" THEN s
    ELSE IF IsFinite(obj.x)
         THEN NavigationChangedDispatch(
                  [s EXCEPT !.zoomFactor = obj.x, !.zoomAssigned = TRUE])
         ELSE s

(***************************************************************************)
(* Construction: new VoxelSize(voxelSize), new SpatialPosition(.,          *)
(* spatialCoordinates), new OrientationState(), new Pose(.,.), new         *)
(* NavigationState(pose, zoomFactor).  An argument not given is JUndef.    *)
(***************************************************************************)
Construct(voxelSize, spatialCoordinates, zoomFactor) ==
    SetZoomFactorFromVoxelSize(
        [size |-> IF voxelSize.t = "undefined" THEN Vec3Zero ELSE NumsOf(voxelSize.a),
         valid |-> voxelSize.t # "undefined",
         spatialCoordinates |-> IF spatialCoordinates.t = "undefined" THEN Vec3Zero
                                ELSE NumsOf(spatialCoordinates.a),
         spatialCoordinatesValid |-> spatialCoordinates.t # "undefined",
         voxelCoordinates |-> NoVec,
         orientation |-> QuatIdentity,
         zoomFactor |-> IF zoomFactor.t = "undefined" THEN NaN ELSE zoomFactor.x,
         nVoxelSize |-> 0, nPosition |-> 0, nOrientation |-> 0, nPose |-> 0,
         nNavigation |-> 0, threw |-> FALSE,
         zoomAssigned |-> FALSE, zoomClobbered |-> FALSE,
         pendingDropped |-> FALSE, unsetZoomNotified |-> FALSE])

(***************************************************************************)
(* Inputs.                                                                 *)
(***************************************************************************)
SizeVecs == {Vec(<<MaxComp + 2 - a, MaxComp + 1, a>>) : a \in 0..MaxComp}

VoxVecs == {Vec(<<0, 1, 1>>), Vec(<<1, 2, 1>>)}

SpatialVecs == {Vec(<<3, 1, 2>>)}

Deltas == {Vec(<<0, 0, 1>>)}

ZoomInputs == {Fin(MaxComp + 2)}

ZoomFactors == {Fin(2)}

\* Values that are no vector of finite numbers: absent, too short, of strings,
\* with a NaN.
JBadVecs ==
    {JUndef, JArr(<<JNum(Fin(1)), JNum(Fin(2))>>),
     JArr(<<JStr(Fin(1)), JStr(Fin(1)), JStr(Fin(1))>>),
     JArr(<<JNum(Fin(1)), JNum(NaN), JNum(Fin(1))>>)}

JNonObjects == {JUndef, JNull, JNum(Fin(1)), JStr(NaN)}

\* The objects whose fields are a subset of DOMAIN opts, each field n holding
\* a value of opts[n].
JObjects(opts) ==
    LET Vals == UNION {opts[n] : n \in DOMAIN opts}
    IN UNION {{JObj(f) : f \in {g \in [D -> Vals] : \A n \in D : g[n] \in opts[n]}} :
              D \in SUBSET DOMAIN opts}

JVoxelSizes == JBadVecs \cup {JVec(v) : v \in SizeVecs}

JPositions ==
    JNonObjects \cup
    JObjects([voxelSize |-> {JArr(<<>>)} \cup {JVec(v) : v \in SizeVecs},
              voxelCoordinates |-> {JUndef, JVec(Vec(<<1, 2, 1>>))},
              spatialCoordinates |-> {JVec(v) : v \in SpatialVecs}])

JOrientations == {JUndef, JVec(Vec(<<0, 0, 0, 2>>)), JVec(Vec(<<2, 0, 0, 0>>))}

\* Quaternions of small integers, to be normalized by restoreState.
JQuats == {JVec(Vec(<<x, y, z, w>>)) : x \in -1..MaxQuat, y \in -1..MaxQuat,
                                       z \in -1..MaxQuat, w \in -1..MaxQuat}

JPoses ==
    {JUndef} \cup
    JObjects([position |-> {JUndef, JObj(<<>>)} \cup
                           JObjects([voxelSize |-> {JVec(Vec(<<MaxComp + 1, MaxComp + 1, 1>>))},
                                     voxelCoordinates |-> {JVec(Vec(<<1, 2, 1>>))}]),
              orientation |-> {JVec(Vec(<<2, 0, 0, 0>>))}])

JZooms ==
    {JUndef, JNull, JStr(NaN), JArr(<<>>), JObj(<<>>), JNum(NaN), JNum(Inf(1))}
    \cup {JStr(z) : z \in ZoomInputs} \cup {JNum(z) : z \in ZoomInputs}

JNavigations ==
    JNonObjects \cup {JArr(<<>>)} \cup
    JObjects([pose |-> {JUndef, JObj(<<>>),
                        JObj([position |-> JObj([voxelSize |-> JVec(Vec(<<MaxComp + 1, MaxComp + 1, 1>>))])])},
              zoomFactor |-> {JStr(NaN)} \cup {JNum(z) : z \in ZoomInputs}])

(***************************************************************************)
(* The state machine.                                                      *)
(***************************************************************************)
VARIABLES
    voxelSize,      \* VoxelSize: [size, valid]
    position,       \* SpatialPosition: [spatialCoordinates, spatialCoordinatesValid,
                    \*                   voxelCoordinates]
    orientation,    \* OrientationState.orientation
    zoomFactor,     \* NavigationState.zoomFactor
    lastOp,         \* the call that has just returned ("new": the constructor), or
                    \* "idle" once its caller has taken note of it
    dispatched,     \* how often that call dispatched each `changed' signal
    threw,          \* whether that call threw
    ret,            \* what getVoxelCoordinates returned, if that was the call
    zoomClobbered,  \* that call replaced a set zoom factor by the voxel-size default
    pendingDropped, \* that call cleared a pending voxel coordinate without converting it
    unsetZoomNotified,  \* that call dispatched NavigationState.changed while VoxelSize
                    \* was valid and zoomFactor NaN
    zoomHistory     \* "unset": constructed with invalid VoxelSize and no zoom factor,
                    \* and since then VoxelSize was never valid and no zoom factor was
                    \* assigned from an input; "firstValid": the call that has just
                    \* returned ended that by making VoxelSize valid; "past" otherwise

vars == <<voxelSize, position, orientation, zoomFactor, lastOp, dispatched, threw,
          ret, zoomClobbered, pendingDropped, unsetZoomNotified, zoomHistory>>

NoRet == [ok |-> FALSE, out |-> NoVec]

\* The object graph, with the call's bookkeeping cleared.
Cur ==
    [size |-> voxelSize.size, valid |-> voxelSize.valid,
     spatialCoordinates |-> position.spatialCoordinates,
     spatialCoordinatesValid |-> position.spatialCoordinatesValid,
     voxelCoordinates |-> position.voxelCoordinates,
     orientation |-> orientation, zoomFactor |-> zoomFactor,
     nVoxelSize |-> 0, nPosition |-> 0, nOrientation |-> 0, nPose |-> 0,
     nNavigation |-> 0, threw |-> FALSE,
     zoomAssigned |-> FALSE, zoomClobbered |-> FALSE,
     pendingDropped |-> FALSE, unsetZoomNotified |-> FALSE]

\* The variables hold state r.
Holds(r) ==
    /\ voxelSize = [size |-> r.size, valid |-> r.valid]
    /\ position = [spatialCoordinates |-> r.spatialCoordinates,
                   spatialCoordinatesValid |-> r.spatialCoordinatesValid,
                   voxelCoordinates |-> r.voxelCoordinates]
    /\ orientation = r.orientation
    /\ zoomFactor = r.zoomFactor
    /\ dispatched = [voxelSize |-> r.nVoxelSize, position |-> r.nPosition,
                     orientation |-> r.nOrientation, pose |-> r.nPose,
                     navigation |-> r.nNavigation]
    /\ threw = r.threw
    /\ zoomClobbered = r.zoomClobbered
    /\ pendingDropped = r.pendingDropped
    /\ unsetZoomNotified = r.unsetZoomNotified

\* The variables hold state r after the step.
Becomes(r) ==
    /\ voxelSize' = [size |-> r.size, valid |-> r.valid]
    /\ position' = [spatialCoordinates |-> r.spatialCoordinates,
                    spatialCoordinatesValid |-> r.spatialCoordinatesValid,
                    voxelCoordinates |-> r.voxelCoordinates]
    /\ orientation' = r.orientation
    /\ zoomFactor' = r.zoomFactor
    /\ dispatched' = [voxelSize |-> r.nVoxelSize, position |-> r.nPosition,
                      orientation |-> r.nOrientation, pose |-> r.nPose,
                      navigation |-> r.nNavigation]
    /\ threw' = r.threw
    /\ zoomClobbered' = r.zoomClobbered
    /\ pendingDropped' = r.pendingDropped
    /\ unsetZoomNotified' = r.unsetZoomNotified

\* Call `op', made on the idle object graph, returns leaving state r.
Call(op, r) ==
    /\ lastOp = "idle"
    /\ Becomes(r)
    /\ lastOp' = op
    /\ ret' = NoRet
    /\ zoomHistory' = IF zoomHistory # "unset" \/ r.zoomAssigned THEN "past"
                      ELSE IF r.valid THEN "firstValid"
                      ELSE "unset"

Init ==
    \E vs \in {JUndef} \cup {JVec(v) : v \in SizeVecs},
       sc \in {JUndef} \cup {JVec(v) : v \in SpatialVecs},
       z \in {JUndef} \cup {JNum(x) : x \in ZoomInputs} :
        /\ Holds(Construct(vs, sc, z))
        /\ lastOp = "new"
        /\ ret = NoRet
        /\ zoomHistory = IF vs = JUndef /\ z = JUndef THEN "unset" ELSE "past"

InBounds(v) == \A i \in 1..3 : IsFinite(v[i]) => Abs(v[i].n) <= MaxCoord * v[i].d

DoVoxelSizeReset == Call("VoxelSize.reset", VoxelSizeReset(Cur))

DoVoxelSizeSetValid == Call("VoxelSize.setValid", VoxelSizeSetValid(Cur))

DoVoxelSizeRestoreState ==
    \E obj \in JVoxelSizes : Call("VoxelSize.restoreState", VoxelSizeRestoreState(Cur, obj))

DoPositionReset == Call("SpatialPosition.reset", PositionReset(Cur))

DoGetVoxelCoordinates ==
    /\ lastOp = "idle"
    /\ lastOp' = "SpatialPosition.getVoxelCoordinates"
    /\ ret' = GetVoxelCoordinates(Cur)
    /\ Becomes(Cur)
    /\ UNCHANGED zoomHistory

DoSetVoxelCoordinates ==
    \E v \in VoxVecs :
        Call("SpatialPosition.setVoxelCoordinates", SetVoxelCoordinates(Cur, v))

DoMarkSpatialCoordinatesChanged ==
    Call("SpatialPosition.markSpatialCoordinatesChanged", MarkSpatialCoordinatesChanged(Cur))

DoPositionRestoreState ==
    \E obj \in JPositions :
        Call("SpatialPosition.restoreState", PositionRestoreState(Cur, obj))

DoSnapToVoxel == Call("SpatialPosition.snapToVoxel", SnapToVoxel(Cur))

DoOrientationRestoreState ==
    \E obj \in JOrientations :
        Call("OrientationState.restoreState", OrientationRestoreState(Cur, obj))

DoOrientationReset == Call("OrientationState.reset", OrientationReset(Cur))

DoOrientationSnap == Call("OrientationState.snap", OrientationSnap(Cur))

DoPoseReset == Call("Pose.reset", PoseReset(Cur))

DoPoseRestoreState ==
    \E obj \in JPoses : Call("Pose.restoreState", PoseRestoreState(Cur, obj))

DoTranslateAbsolute ==
    \E d \in Deltas :
        /\ InBounds(TranslateAbsolute(Cur, d).spatialCoordinates)
        /\ Call("Pose.translateAbsolute", TranslateAbsolute(Cur, d))

DoTranslateRelative ==
    \E d \in Deltas :
        /\ InBounds(TranslateRelative(Cur, d).spatialCoordinates)
        /\ Call("Pose.translateRelative", TranslateRelative(Cur, d))

DoNavigationReset == Call("NavigationState.reset", NavigationReset(Cur))

DoResetZoom == Call("NavigationState.resetZoom", ResetZoom(Cur))

DoZoomBy ==
    \E f \in ZoomFactors :
        /\ LET z == ZoomBy(Cur, f).zoomFactor
           IN IsFinite(z) => Abs(z.n) <= MaxZoom * z.d
        /\ Call("NavigationState.zoomBy", ZoomBy(Cur, f))

DoNavigationRestoreState ==
    \E obj \in JNavigations :
        Call("NavigationState.restoreState", NavigationRestoreState(Cur, obj))

DoTrackableZoomRestoreState ==
    \E obj \in JZooms :
        Call("TrackableZoomState.restoreState", TrackableZoomRestoreState(Cur, obj))

\* The caller has seen the call return: its record is dropped.
Return ==
    /\ lastOp # "idle"
    /\ Becomes(Cur)
    /\ lastOp' = "idle"
    /\ ret' = NoRet
    /\ zoomHistory' = IF zoomHistory = "unset" THEN "unset" ELSE "past"

Next ==
    \/ Return
    \/ DoVoxelSizeReset
    \/ DoVoxelSizeSetValid
    \/ DoVoxelSizeRestoreState
    \/ DoPositionReset
    \/ DoGetVoxelCoordinates
    \/ DoSetVoxelCoordinates
    \/ DoMarkSpatialCoordinatesChanged
    \/ DoPositionRestoreState
    \/ DoSnapToVoxel
    \/ DoOrientationRestoreState
    \/ DoOrientationReset
    \/ DoOrientationSnap
    \/ DoPoseReset
    \/ DoPoseRestoreState
    \/ DoTranslateAbsolute
    \/ DoTranslateRelative
    \/ DoNavigationReset
    \/ DoResetZoom
    \/ DoZoomBy
    \/ DoNavigationRestoreState
    \/ DoTrackableZoomRestoreState

Spec == Init /\ [][Next]_vars

(***************************************************************************)
(* The orientation alone: a NavigationState constructed without arguments,  *)
(* whose OrientationState is restored from quaternions and snapped.        *)
(***************************************************************************)
InitSnap ==
    /\ Holds(Construct(JUndef, JUndef, JUndef))
    /\ lastOp = "new"
    /\ ret = NoRet
    /\ zoomHistory = "unset"

DoOrientationRestoreStateQuat ==
    \E obj \in JQuats :
        Call("OrientationState.restoreState", OrientationRestoreState(Cur, obj))

NextSnap ==
    \/ Return
    \/ DoOrientationRestoreStateQuat
    \/ DoOrientationSnap

SpecSnap == InitSnap /\ [][NextSnap]_vars

(***************************************************************************)
(* The claims.                                                             *)
(***************************************************************************)

\* z is the minimum of the three components of v.
IsMinComponent(z, v) ==
    /\ \E i \in 1..3 : z = v[i]
    /\ \A i \in 1..3 : ~NumLess(v[i], z)

\* C1: a NavigationState constructed with an invalid VoxelSize and no zoom
\* factor keeps zoomFactor NaN until VoxelSize first becomes valid, as long
\* as no zoom factor is assigned from an input; when VoxelSize.setValid or
\* VoxelSize.restoreState makes it valid, the call returns with zoomFactor
\* equal to the minimum voxel-size component.
C1_ZoomUnsetUntilVoxelSizeValid ==
    /\ zoomHistory = "unset" => IsNaN(zoomFactor)
    /\ (/\ zoomHistory = "firstValid"
        /\ lastOp \in {"VoxelSize.setValid", "VoxelSize.restoreState"})
       => IsMinComponent(zoomFactor, voxelSize.size)

\* C1 witness: VoxelSize.restoreState has just made the voxel size valid for
\* the first time, and the zoom factor is its smallest component.
C1_Witness ==
    /\ zoomHistory = "firstValid"
    /\ lastOp = "VoxelSize.restoreState"
    /\ voxelSize.size \in SizeVecs
    /\ zoomFactor = voxelSize.size[3]
    /\ zoomFactor # voxelSize.size[1]

\* The state VoxelSize becoming valid with size sz leaves, r, is the pending
\* voxel coordinate v resolved.
Resolved(r, v, sz) ==
    /\ PositionValid(r)
    /\ r.voxelCoordinates = NoVec
    /\ r.spatialCoordinates =
           <<NumMul(v[1], sz[1]), NumMul(v[2], sz[2]), NumMul(v[3], sz[3])>>

\* From state s0: setVoxelCoordinates(v), and then VoxelSize becoming valid by
\* setValid or by restoreState of a well-formed size, resolves v.
ResolvesPending(s0) ==
    \A v \in VoxVecs :
        LET s1 == Begin(SetVoxelCoordinates(s0, v))
        IN /\ Resolved(VoxelSizeSetValid(s1), v, s0.size)
           /\ \A sz \in SizeVecs : Resolved(VoxelSizeRestoreState(s1, JVec(sz)), v, sz)

C3_RestoreNeverThrows == ~threw

VoxelSizeOps == {"VoxelSize.reset", "VoxelSize.setValid", "VoxelSize.restoreState"}

PositionOps ==
    {"SpatialPosition.reset", "SpatialPosition.setVoxelCoordinates",
     "SpatialPosition.markSpatialCoordinatesChanged", "SpatialPosition.restoreState",
     "SpatialPosition.snapToVoxel", "SpatialPosition.getVoxelCoordinates"}

OrientationOps == {"OrientationState.reset", "OrientationState.restoreState"}

NavigationOps ==
    {"NavigationState.reset", "NavigationState.resetZoom", "NavigationState.zoomBy",
     "NavigationState.restoreState"}

\* C4, as claimed: a public operation of VoxelSize, SpatialPosition,
\* OrientationState or NavigationState that changes that object's state
\* dispatches that object's changed signal at least once before it returns.
C4_MutationsNotify ==
    [][/\ (lastOp' \in VoxelSizeOps /\ voxelSize' # voxelSize)
              => dispatched'.voxelSize >= 1
       /\ (lastOp' \in PositionOps /\ position' # position)
              => dispatched'.position >= 1
       /\ (lastOp' \in OrientationOps /\ orientation' # orientation)
              => dispatched'.orientation >= 1
       /\ (lastOp' \in NavigationOps /\ zoomFactor' # zoomFactor)
              => dispatched'.navigation >= 1]_vars

\* C5, as claimed: a zoom factor that is set is never replaced by the
\* minimum voxel-size component; the derivation from VoxelSize assigns
\* only while zoomFactor is NaN.
C5_SetZoomNeverReplaced == ~zoomClobbered

C6Deltas == Deltas \cup VoxVecs \cup SpatialVecs

\* C6, as claimed: with the identity orientation translateRelative(delta)
\* and translateAbsolute(delta) leave the same state and dispatch the same
\* notifications, whatever the position's validity.
C6_TranslateEquivalentAlways ==
    orientation = QuatIdentity
        => \A d \in C6Deltas : TranslateRelative(Cur, d) = TranslateAbsolute(Cur, d)

\* C6, amended: the same, for a pose whose position is valid.
C6_TranslateEquivalentIfValid ==
    (orientation = QuatIdentity /\ PositionValid(Cur))
        => \A d \in C6Deltas : TranslateRelative(Cur, d) = TranslateAbsolute(Cur, d)

\* C6 witness: translateRelative has moved a valid position under the
\* identity orientation.
C6_Witness ==
    /\ lastOp = "Pose.translateRelative"
    /\ orientation = QuatIdentity
    /\ PositionValid(Cur)
    /\ dispatched.position = 1
    /\ position.spatialCoordinates # Vec3Zero

C7BadInputs ==
    JBadVecs \cup JNonObjects \cup
    {JObj(<<>>), JVec(Vec(<<1, 1, 1, 1>>)),
     JArr(<<JNum(Fin(1)), JNum(Inf(1)), JNum(Fin(1))>>)}

\* C7: VoxelSize.restoreState(value) never throws; afterwards valid is false
\* if value is no 3-element vector of finite numbers, and otherwise valid is
\* true and size is the parsed vector, whatever the state before.
C7_VoxelSizeRestoreValidity ==
    /\ \A obj \in C7BadInputs :
           LET r == VoxelSizeRestoreState(Cur, obj) IN ~r.threw /\ ~r.valid
    /\ \A v \in SizeVecs \cup VoxVecs :
           LET r == VoxelSizeRestoreState(Cur, JVec(v))
           IN ~r.threw /\ r.valid /\ r.size = v

\* C7 witness: VoxelSize.restoreState of a well-formed vector has returned on
\* a voxel size that was valid already (nothing was dispatched).
C7_Witness ==
    /\ lastOp = "VoxelSize.restoreState"
    /\ ~threw
    /\ voxelSize.valid
    /\ voxelSize.size \in SizeVecs
    /\ dispatched.voxelSize = 0

\* C8: NavigationState.reset() and Pose.reset() leave VoxelSize as it was and
\* do not dispatch VoxelSize.changed; they leave the position invalid with
\* no pending voxel coordinate and the orientation the identity, and
\* NavigationState.reset() leaves the zoom factor NaN.
C8_ResetKeepsVoxelSize ==
    [][/\ lastOp' \in {"NavigationState.reset", "Pose.reset"}
              => /\ voxelSize' = voxelSize
                 /\ dispatched'.voxelSize = 0
                 /\ ~position'.spatialCoordinatesValid
                 /\ position'.voxelCoordinates = NoVec
                 /\ orientation' = QuatIdentity
       /\ lastOp' = "NavigationState.reset" => IsNaN(zoomFactor')]_vars

\* C8 witness: NavigationState.reset() has returned on a graph whose voxel
\* size is valid.
C8_Witness ==
    /\ lastOp = "NavigationState.reset"
    /\ voxelSize.valid
    /\ voxelSize.size \in SizeVecs
    /\ IsNaN(zoomFactor)
    /\ dispatched.navigation >= 1

\* r and s agree on every field of the object graph but zoomFactor.
SameButZoom(r, s) ==
    /\ r.size = s.size /\ r.valid = s.valid
    /\ r.spatialCoordinates = s.spatialCoordinates
    /\ r.spatialCoordinatesValid = s.spatialCoordinatesValid
    /\ r.voxelCoordinates = s.voxelCoordinates
    /\ r.orientation = s.orientation
    /\ ~r.threw

NoDispatch(r) ==
    /\ r.nVoxelSize = 0 /\ r.nPosition = 0 /\ r.nOrientation = 0
    /\ r.nPose = 0 /\ r.nNavigation = 0

\* C9: TrackableZoomState.restoreState(x) with x no number, or a number that
\* is not finite, changes nothing and dispatches nothing; with a finite number
\* it sets zoomFactor to x and dispatches NavigationState.changed.
C9_TrackableZoomRestore ==
    \A obj \in JZooms :
        LET r == TrackableZoomRestoreState(Cur, obj)
        IN /\ SameButZoom(r, Cur)
           /\ IF obj \in {JNum(z) : z \in ZoomInputs}
              THEN r.zoomFactor = obj.x /\ r.nNavigation >= 1
              ELSE r.zoomFactor = zoomFactor /\ NoDispatch(r)

\* C9 witness: TrackableZoomState.restoreState has set the zoom factor.
C9_Witness ==
    /\ lastOp = "TrackableZoomState.restoreState"
    /\ zoomFactor \in ZoomInputs
    /\ dispatched.navigation = 1

\* getVoxelCoordinates right after setVoxelCoordinates(v) returns true and v.
RoundTrips(s0) ==
    \A v \in VoxVecs :
        GetVoxelCoordinates(SetVoxelCoordinates(s0, v)) = [ok |-> TRUE, out |-> v]

\* What getVoxelCoordinates returned is false exactly when there is no
\* pending voxel coordinate and the position is not valid.
ReturnsFalseExactlyWhenUnset ==
    lastOp = "SpatialPosition.getVoxelCoordinates"
        => (ret.ok <=> (position.voxelCoordinates # NoVec
                        \/ (position.spatialCoordinatesValid /\ voxelSize.valid)))

SignedPermutation(p, sg) ==
    LET E(i, j) == IF p[i] = j THEN sg[i] ELSE 0
    IN <<E(1, 1), E(1, 2), E(1, 3), E(2, 1), E(2, 2), E(2, 3), E(3, 1), E(3, 2), E(3, 3)>>

Det3(m) ==
    m[1] * (m[5] * m[9] - m[6] * m[8]) - m[2] * (m[4] * m[9] - m[6] * m[7])
        + m[3] * (m[4] * m[8] - m[5] * m[7])

SignedPermutations ==
    {SignedPermutation(p, sg) :
        p \in {f \in [1..3 -> 1..3] : \A i, j \in 1..3 : f[i] = f[j] => i = j},
        sg \in [1..3 -> {-1, 1}]}

\* The rotation matrices of the 24 axis-aligned orientations.
AxisAlignedMats == {Vec(m) : m \in {n \in SignedPermutations : Det3(n) = 1}}

\* Exactly one entry of every row and of every column of m is 1 or -1, and
\* the others are 0.
OneUnitPerRowAndColumn(m) ==
    /\ \A n \in 1..9 : m[n] \in {Fin(0), Fin(1), Fin(-1)}
    /\ \A i \in 0..2 : Cardinality({j \in 0..2 : m[i * 3 + j + 1] # Fin(0)}) = 1
    /\ \A j \in 0..2 : Cardinality({i \in 0..2 : m[i * 3 + j + 1] # Fin(0)}) = 1

QuatNegate(q) == <<NumMul(Fin(-1), q[1]), NumMul(Fin(-1), q[2]),
                   NumMul(Fin(-1), q[3]), NumMul(Fin(-1), q[4])>>

IsUnitQuat(q) ==
    NumAdd(NumAdd(NumMul(q[1], q[1]), NumMul(q[2], q[2])),
           NumAdd(NumMul(q[3], q[3]), NumMul(q[4], q[4]))) = Fin(1)

\* snap() on orientation q leaves the rotation as it is: the same matrix, and
\* of a unit quaternion the same quaternion up to the sign that q and -q share
\* a rotation by.
SnapKeeps(q) ==
    LET r == OrientationSnap([Cur EXCEPT !.orientation = q]).orientation
    IN /\ Mat3FromQuat(r) = Mat3FromQuat(q)
       /\ IsUnitQuat(q) => (r = q \/ r = QuatNegate(q))

\* C11: snap() leaves each of the 24 axis-aligned orientations as it is (the
\* quaternion fromMat3 gives of each of the 24 matrices exactly, any other
\* quaternion of that rotation up to sign); and for the orientation held,
\* whatever it is, the matrix of the greedy selection has exactly one entry 1
\* or -1 in every row and every column, and snap() twice leaves what snap()
\* once leaves.
C11_SnapIdempotent ==
    /\ Cardinality(AxisAlignedMats) = 24
    /\ \A m \in AxisAlignedMats :
           LET q == QuatFromMat3(m)
           IN /\ Mat3FromQuat(q) = m
              /\ OrientationSnap([Cur EXCEPT !.orientation = q]).orientation = q
    /\ Mat3FromQuat(orientation) \in AxisAlignedMats => SnapKeeps(orientation)
    /\ OneUnitPerRowAndColumn(SnapRows(Mat3FromQuat(orientation)))
    /\ LET once == OrientationSnap(Cur)
       IN OrientationSnap(Begin(once)).orientation = once.orientation

\* C11 witness: snap() has returned on a quarter turn (a quaternion with
\* components sqrt(2)/2), which a further snap() leaves as it is.
C11_Witness ==
    /\ lastOp = "OrientationState.snap"
    /\ dispatched.orientation = 1
    /\ Mat3FromQuat(orientation) \in AxisAlignedMats
    /\ \E i \in 1..4 : orientation[i].r = 2
    /\ OrientationSnap(Cur).orientation = orientation

\* C12, as claimed: VoxelSize.reset() called while a voxel coordinate v is
\* pending leaves the position as it was (v not converted, spatial
\* coordinates not marked valid, v still pending), so that VoxelSize becoming
\* valid with size s afterwards yields spatialCoordinates = v * s.
C12_ResetKeepsPending ==
    position.voxelCoordinates # NoVec
        => LET r == VoxelSizeReset(Cur)
           IN /\ r.voxelCoordinates = position.voxelCoordinates
              /\ r.spatialCoordinatesValid = position.spatialCoordinatesValid
              /\ r.spatialCoordinates = position.spatialCoordinates
              /\ ~position.spatialCoordinatesValid
                     => \A sz \in SizeVecs :
                            Resolved(VoxelSizeRestoreState(Begin(r), JVec(sz)),
                                     position.voxelCoordinates, sz)

\* What VoxelSize becoming valid leaves, r, of state s holding both valid
\* spatial coordinates and a pending voxel coordinate: the spatial coordinates
\* of s, no pending voxel coordinate, nothing converted, a valid position.
SpatialTakesPrecedence(s, r) ==
    /\ r.valid
    /\ r.spatialCoordinates = s.spatialCoordinates
    /\ r.voxelCoordinates = NoVec
    /\ r.pendingDropped
    /\ PositionValid(r)

Without(obj, name) == JObj([n \in DOMAIN obj.f \ {name} |-> obj.f[n]])

SamePosition(r, s) ==
    /\ r.spatialCoordinatesValid = s.spatialCoordinatesValid
    /\ r.voxelCoordinates = s.voxelCoordinates
    /\ r.spatialCoordinatesValid => r.spatialCoordinates = s.spatialCoordinates

\* C14, as claimed: SpatialPosition.restoreState(obj) with a well-formed
\* 'voxelCoordinates' leaves the position that voxelCoordinates gives (what the
\* same obj without 'spatialCoordinates' leaves), a well-formed
\* 'spatialCoordinates' present or not; with 'voxelCoordinates' absent or
\* malformed and a well-formed 'spatialCoordinates' it leaves those spatial
\* coordinates; with neither well-formed it leaves spatialCoordinatesValid
\* false and sets no pending voxel coordinate.
C14_VoxelCoordinatesFirst ==
    \A obj \in {o \in JPositions : o.t = "object"} :
        LET r == PositionRestoreState(Cur, obj)
            pv == ParseFiniteVec(3, Get(obj, "voxelCoordinates"))
            ps == ParseFiniteVec(3, Get(obj, "spatialCoordinates"))
        IN IF pv.ok
           THEN SamePosition(r, PositionRestoreState(Cur, Without(obj, "spatialCoordinates")))
           ELSE IF ps.ok
                THEN /\ r.spatialCoordinatesValid
                     /\ r.spatialCoordinates = ps.v
                     /\ r.voxelCoordinates = NoVec
           ELSE /\ ~r.spatialCoordinatesValid
                /\ r.voxelCoordinates \in {NoVec, position.voxelCoordinates}

\* What NavigationState.restoreState(obj) is claimed to leave, r, when obj
\* is an object: the finite zoom factor parsed from obj.zoomFactor if there is
\* one, else the minimum component of a valid VoxelSize, else NaN; and
\* NavigationState.changed dispatched.
ZoomRestored(r, obj) ==
    LET z == ParseFloat(Get(obj, "zoomFactor"))
    IN /\ r.zoomFactor = IF IsFinite(z) THEN z
                         ELSE IF r.valid
                              THEN NumMin(NumMin(r.size[1], r.size[2]), r.size[3])
                         ELSE NaN
       /\ r.nNavigation >= 1

\* C15, as claimed: NavigationState.restoreState(obj) with obj not an object
\* changes nothing and dispatches nothing; with any object it ends with
\* zoomFactor the finite number parsed from obj.zoomFactor, else the minimum
\* voxel-size component if the restored VoxelSize is valid, else NaN, and
\* with NavigationState.changed dispatched at least once.
C15_NavigationRestoreZoom ==
    \A obj \in JNavigations :
        LET r == NavigationRestoreState(Cur, obj)
        IN IF obj.t \in {"object", "array"} THEN ZoomRestored(r, obj) ELSE r = Cur

\* C16: after every public operation, a position that holds a pending voxel
\* coordinate has an invalid VoxelSize; and with a valid VoxelSize
\* getVoxelCoordinates returns what it computes from the spatial coordinates.
C16_PendingOnlyWhileInvalid ==
    /\ position.voxelCoordinates # NoVec => ~voxelSize.valid
    /\ (lastOp = "SpatialPosition.getVoxelCoordinates" /\ voxelSize.valid /\ ret.ok)
           => ret.out = VoxelFromSpatial(Cur, position.spatialCoordinates)

\* C16 witness: VoxelSize.restoreState has failed to parse its input on a
\* position holding a pending voxel coordinate, which is still pending.
C16_Witness ==
    /\ lastOp = "VoxelSize.restoreState"
    /\ position.voxelCoordinates \in VoxVecs
    /\ ~voxelSize.valid
    /\ dispatched.voxelSize = 0

SameNavigation(r, s) ==
    /\ r.valid = s.valid
    /\ r.size = s.size
    /\ PositionValid(r) = PositionValid(s)
    /\ GetVoxelCoordinates(r) = GetVoxelCoordinates(s)
    /\ r.orientation = s.orientation
    /\ r.zoomFactor = s.zoomFactor

\* C18, as claimed: in every state whose toJSON() is an object J,
\* restoreState(J) on a freshly constructed NavigationState returns normally
\* and leaves the VoxelSize validity and size, the position validity and voxel
\* coordinates, the orientation and the zoom factor of that state.
C18_SerializationRoundTrip ==
    LET J == NavigationToJSON(Cur)
    IN J # JUndef
           => LET r == NavigationRestoreState(Construct(JUndef, JUndef, JUndef), J)
              IN ~r.threw /\ SameNavigation(r, Cur)

\* C19, as claimed: an operation that makes VoxelSize valid on a
\* NavigationState whose zoomFactor is NaN dispatches NavigationState.changed
\* only after the zoom factor is derived from the voxel size: none of its
\* dispatches reaches the observers while zoomFactor is still NaN.
C19_ZoomDerivedBeforeNotification ==
    [][(IsNaN(zoomFactor) /\ ~voxelSize.valid /\ voxelSize'.valid)
           => ~unsetZoomNotified']_vars

=============================================================================
